---- MODULE Spec2Model ----
(***************************************************************************)
(* Lineage metadata store of KapitelV/metadata_extractor.                  *)
(*                                                                         *)
(* The model follows sql_file_processor.py: process_sql_directory runs     *)
(* process_sql_file on one file after the other; process_sql_file          *)
(* consolidates the statements of the file, builds the dependency graph,   *)
(* opens a transaction, resolves every consolidated table against the      *)
(* persisted one (_process_table_data), writes the script, statement and   *)
(* lineage rows (_populate_script_tables), merges the script into the      *)
(* global lineage file (_update_global_lineage) and commits.               *)
(*                                                                         *)
(* A statement is the fact record the extractor returns for it:            *)
(*   statement_type, temporary (CREATE TEMPORARY/VOLATILE), target_table,  *)
(*   target_columns, source_tables.                                        *)
(* A column carries its name and its label (col_en_nm, col_cn_nm); the     *)
(* other column attributes take no part in conflict resolution.            *)
(***************************************************************************)
EXTENDS Integers, Sequences, FiniteSets, TLC

\* ------------------------------------------------------------------------
\* Bounds of the model
\* ------------------------------------------------------------------------
\* statements per script
MaxStmts == 2
\* process_sql_file calls over a whole behaviour
MaxFiles == 2
\* files a process_sql_directory call may find
MaxBatch == 3
\* edges of a graph handed to the graph operations on their own
MaxEdges == 4

\* ------------------------------------------------------------------------
\* Statement kinds
\* ------------------------------------------------------------------------
ddl_types == {"CREATE_TABLE", "CREATE_TABLE_AS", "CREATE_VIEW"}

dml_types == {"INSERT_SELECT", "INSERT_VALUES", "UPDATE", "MERGE"}

\* ------------------------------------------------------------------------
\* Sequence helpers
\* ------------------------------------------------------------------------
Range(s) == {s[i] : i \in 1..Len(s)}

\* the first of the positions that match, 0 when none does
FirstIndex(positions) ==
    IF positions = {} THEN 0
    ELSE CHOOSE i \in positions : \A j \in positions : i <= j

\* ------------------------------------------------------------------------
\* Identity encoding
\* ------------------------------------------------------------------------
\* script_id is "" where the code passes None or ''
_generate_table_id(schema_name, table_name, script_id) ==
    IF schema_name # ""
    THEN IF script_id # ""
         THEN schema_name \o "__" \o table_name \o "__" \o script_id
         ELSE schema_name \o "__" \o table_name \o "__"
    ELSE IF script_id # ""
         THEN "__" \o table_name \o "__" \o script_id
         ELSE "__" \o table_name \o "__"

\* variant: the column id is built without the script id
_generate_column_id_unscoped(schema_name, table_name, column_name, script_id) ==
    schema_name \o "__" \o table_name \o "____" \o column_name

_generate_column_id(schema_name, table_name, column_name, script_id) ==
    IF schema_name # ""
    THEN IF script_id # ""
         THEN schema_name \o "__" \o table_name \o "__" \o script_id \o "__" \o column_name
         ELSE schema_name \o "__" \o table_name \o "____" \o column_name
    ELSE IF script_id # ""
         THEN "__" \o table_name \o "__" \o script_id \o "__" \o column_name
         ELSE "__" \o table_name \o "____" \o column_name

\* ------------------------------------------------------------------------
\* Table kind of the statement that first targets a table
\* ------------------------------------------------------------------------
_determine_table_type(ast, schema_name) ==
    IF ast.statement_type \in ddl_types
    THEN IF ast.statement_type = "CREATE_VIEW" THEN "VIEW"
         ELSE IF ast.temporary THEN "TMP_TABLE"
         ELSE "TABLE"
    ELSE IF ast.statement_type \in {"INSERT_SELECT", "INSERT_VALUES", "UPDATE", "MERGE"}
         THEN IF schema_name # "" THEN "TABLE" ELSE "TMP_TABLE"
         ELSE "TABLE"

\* ------------------------------------------------------------------------
\* _consolidate_metadata: one record per (schema, name), in first-seen order
\* ------------------------------------------------------------------------
KeyIndex(tables_data, schema_name, table_name) ==
    FirstIndex({i \in 1..Len(tables_data) :
                  /\ tables_data[i].schema_name = schema_name
                  /\ tables_data[i].table_name = table_name})

\* variant: a later contribution of any kind only fills an empty label
MergeColumnFillOnly(existing_col, col, stmt_type) ==
    [existing_col EXCEPT
        !.col_cn_nm = IF col.col_cn_nm # "" /\ @ = "" THEN col.col_cn_nm ELSE @]

\* the column merge of one later contribution into an existing column
MergeColumn(existing_col, col, stmt_type) ==
    IF stmt_type \in ddl_types
    THEN [existing_col EXCEPT
            !.col_cn_nm = IF col.col_cn_nm # "" THEN col.col_cn_nm ELSE @]
    ELSE [existing_col EXCEPT
            !.col_cn_nm = IF col.col_cn_nm # "" /\ @ = "" THEN col.col_cn_nm ELSE @]

RECURSIVE ConsolidateColumns(_, _, _, _)
ConsolidateColumns(columns, target_columns, i, stmt_type) ==
    IF i > Len(target_columns) THEN columns
    ELSE LET col == target_columns[i]
             k == FirstIndex({j \in 1..Len(columns) :
                                 columns[j].col_en_nm = col.col_en_nm})
             next == IF k # 0
                     THEN [columns EXCEPT ![k] = MergeColumn(@, col, stmt_type)]
                     ELSE Append(columns, col)
         IN ConsolidateColumns(next, target_columns, i + 1, stmt_type)

ConsolidateTarget(tables_data, metadata) ==
    LET schema_name == metadata.target_table.schema_nm
        table_name == metadata.target_table.tbl_en_nm
        stmt_type == metadata.statement_type
    IN IF table_name = "" THEN tables_data
       ELSE LET k0 == KeyIndex(tables_data, schema_name, table_name)
                td1 == IF k0 = 0
                       THEN Append(tables_data,
                                   [schema_name |-> schema_name,
                                    table_name |-> table_name,
                                    table_cn_name |-> metadata.target_table.tbl_cn_nm,
                                    table_type |-> _determine_table_type(metadata, schema_name),
                                    data_source |-> stmt_type,
                                    columns |-> <<>>])
                       ELSE tables_data
                k == KeyIndex(td1, schema_name, table_name)
            IN [td1 EXCEPT ![k] =
                   [@ EXCEPT !.data_source = stmt_type,
                             !.columns = ConsolidateColumns(@, metadata.target_columns,
                                                            1, stmt_type)]]

\* variant: every reference to a source adds a record
RECURSIVE ConsolidateSourcesAlways(_, _, _)
ConsolidateSourcesAlways(tables_data, source_tables, i) ==
    IF i > Len(source_tables) THEN tables_data
    ELSE LET src == source_tables[i]
             next == IF src.tbl_en_nm = "" THEN tables_data
                     ELSE Append(tables_data,
                                 [schema_name |-> src.schema_nm,
                                  table_name |-> src.tbl_en_nm,
                                  table_cn_name |-> "",
                                  table_type |-> "TABLE",
                                  data_source |-> "EXTERNAL",
                                  columns |-> <<>>])
         IN ConsolidateSourcesAlways(next, source_tables, i + 1)

RECURSIVE ConsolidateSources(_, _, _)
ConsolidateSources(tables_data, source_tables, i) ==
    IF i > Len(source_tables) THEN tables_data
    ELSE LET src == source_tables[i]
             next == IF src.tbl_en_nm = "" THEN tables_data
                     ELSE IF KeyIndex(tables_data, src.schema_nm, src.tbl_en_nm) # 0
                          THEN tables_data
                          ELSE Append(tables_data,
                                      [schema_name |-> src.schema_nm,
                                       table_name |-> src.tbl_en_nm,
                                       table_cn_name |-> "",
                                       table_type |-> "TABLE",
                                       data_source |-> "EXTERNAL",
                                       columns |-> <<>>])
         IN ConsolidateSources(next, source_tables, i + 1)

RECURSIVE ConsolidateFrom(_, _, _)
ConsolidateFrom(tables_data, extracted_data, i) ==
    IF i > Len(extracted_data) THEN tables_data
    ELSE LET metadata == extracted_data[i]
             td1 == ConsolidateTarget(tables_data, metadata)
             td2 == ConsolidateSources(td1, metadata.source_tables, 1)
         IN ConsolidateFrom(td2, extracted_data, i + 1)

_consolidate_metadata(extracted_data) == ConsolidateFrom(<<>>, extracted_data, 1)

\* ------------------------------------------------------------------------
\* The relational store: sets of rows, each table with primary key id
\* ------------------------------------------------------------------------
EmptyStore ==
    [tables |-> {}, columns |-> {}, sql_scripts |-> {}, script_statements |-> {},
     data_lineage_detail |-> {}, data_lineage_summary |-> {}]

HasTable(st, table_id) == \E r \in st.tables : r.id = table_id

TableRow(st, table_id) == CHOOSE r \in st.tables : r.id = table_id

ColumnsOf(st, table_id) == {c \in st.columns : c.table_id = table_id}

\* the outcome of a store operation: ok = FALSE when it raised
Done(st) == [ok |-> TRUE, st |-> st]

Raised(st) == [ok |-> FALSE, st |-> st]

\* INSERT INTO columns: raises on a primary key that is already there
InsertColumnRow(res, row) ==
    IF ~res.ok THEN res
    ELSE IF \E c \in res.st.columns : c.id = row.id THEN Raised(res.st)
    ELSE Done([res.st EXCEPT !.columns = @ \cup {row}])

RECURSIVE InsertColumnsFrom(_, _, _, _, _, _, _)
InsertColumnsFrom(res, table_id, schema_name, table_name, columns, script_id, i) ==
    IF i > Len(columns) THEN res
    ELSE LET col == columns[i]
             next == IF col.col_en_nm = "" THEN res
                     ELSE InsertColumnRow(res,
                              [id |-> _generate_column_id(schema_name, table_name,
                                                          col.col_en_nm, script_id),
                               table_id |-> table_id,
                               column_name |-> col.col_en_nm,
                               description |-> col.col_cn_nm])
         IN InsertColumnsFrom(next, table_id, schema_name, table_name, columns,
                              script_id, i + 1)

_insert_columns(st, table_id, schema_name, table_name, columns, script_id) ==
    InsertColumnsFrom(Done(st), table_id, schema_name, table_name, columns, script_id, 1)

_insert_single_column(res, table_id, schema_name, table_name, col, script_id) ==
    InsertColumnRow(res,
        [id |-> _generate_column_id(schema_name, table_name, col.col_en_nm, script_id),
         table_id |-> table_id,
         column_name |-> col.col_en_nm,
         description |-> col.col_cn_nm])

\* variant: the row of a temp table is stored without its script id
_insert_new_table_unscoped(st, table_data, script_id) ==
    LET is_tmp_table == table_data.table_type = "TMP_TABLE"
        current_script_id == IF is_tmp_table THEN script_id ELSE ""
        table_id == _generate_table_id(table_data.schema_name, table_data.table_name,
                                       current_script_id)
        row == [id |-> table_id,
                schema_name |-> table_data.schema_name,
                table_name |-> table_data.table_name,
                table_type |-> table_data.table_type,
                description |-> table_data.table_cn_name,
                data_source |-> table_data.data_source,
                script_id |-> ""]
    IN IF HasTable(st, table_id) THEN Raised(st)
       ELSE _insert_columns([st EXCEPT !.tables = @ \cup {row}], table_id,
                            table_data.schema_name, table_data.table_name,
                            table_data.columns, current_script_id)

_insert_new_table(st, table_data, script_id) ==
    LET is_tmp_table == table_data.table_type = "TMP_TABLE"
        current_script_id == IF is_tmp_table THEN script_id ELSE ""
        table_id == _generate_table_id(table_data.schema_name, table_data.table_name,
                                       current_script_id)
        row == [id |-> table_id,
                schema_name |-> table_data.schema_name,
                table_name |-> table_data.table_name,
                table_type |-> table_data.table_type,
                description |-> table_data.table_cn_name,
                data_source |-> table_data.data_source,
                script_id |-> current_script_id]
    IN IF HasTable(st, table_id) THEN Raised(st)
       ELSE _insert_columns([st EXCEPT !.tables = @ \cup {row}], table_id,
                            table_data.schema_name, table_data.table_name,
                            table_data.columns, current_script_id)

\* variant: the overwrite leaves the provenance of the row as it was
_update_table_keeping_data_source(st, table_id, table_data, script_id, new_data_source) ==
    LET is_tmp_table == table_data.table_type = "TMP_TABLE"
        current_script_id == IF is_tmp_table THEN script_id ELSE ""
        st1 == [st EXCEPT
                  !.tables = {IF r.id = table_id
                              THEN [r EXCEPT !.table_type = table_data.table_type,
                                             !.description = table_data.table_cn_name,
                                             !.script_id = current_script_id]
                              ELSE r : r \in @},
                  !.columns = {c \in @ : c.table_id # table_id}]
    IN _insert_columns(st1, table_id, table_data.schema_name, table_data.table_name,
                       table_data.columns, script_id)

\* full overwrite: the table row takes the new record, the columns are replaced
_update_table_with_statement(st, table_id, table_data, script_id, new_data_source) ==
    LET is_tmp_table == table_data.table_type = "TMP_TABLE"
        current_script_id == IF is_tmp_table THEN script_id ELSE ""
        row == [id |-> table_id,
                schema_name |-> table_data.schema_name,
                table_name |-> table_data.table_name,
                table_type |-> table_data.table_type,
                description |-> table_data.table_cn_name,
                data_source |-> IF new_data_source # "" THEN new_data_source
                                ELSE table_data.data_source,
                script_id |-> current_script_id]
        st1 == [st EXCEPT !.tables = {IF r.id = table_id THEN row ELSE r : r \in @},
                          !.columns = {c \in @ : c.table_id # table_id}]
    IN _insert_columns(st1, table_id, table_data.schema_name, table_data.table_name,
                       table_data.columns, script_id)

SetDescription(st, table_id, column_name, description) ==
    [st EXCEPT !.columns =
        {IF c.table_id = table_id /\ c.column_name = column_name
         THEN [c EXCEPT !.description = description] ELSE c : c \in @}]

\* existing_columns is read once, before the loop
RECURSIVE SupplementFrom(_, _, _, _, _)
SupplementFrom(st, existing_columns, table_id, columns, i) ==
    IF i > Len(columns) THEN st
    ELSE LET col == columns[i]
             hit == {c \in existing_columns : c.column_name = col.col_en_nm}
             next == IF hit # {} /\ col.col_cn_nm # ""
                        /\ (\E c \in hit : c.description = "")
                     THEN SetDescription(st, table_id, col.col_en_nm, col.col_cn_nm)
                     ELSE st
         IN SupplementFrom(next, existing_columns, table_id, columns, i + 1)

_supplement_chinese_names_only(st, table_id, table_data, script_id) ==
    Done(SupplementFrom(st, ColumnsOf(st, table_id), table_id, table_data.columns, 1))

\* variant: a new label that differs from the persisted one replaces it
RECURSIVE MergeFromLastWins(_, _, _, _, _, _)
MergeFromLastWins(res, existing_columns, table_id, table_data, script_id, i) ==
    IF i > Len(table_data.columns) \/ ~res.ok THEN res
    ELSE LET col == table_data.columns[i]
             hit == {c \in existing_columns : c.column_name = col.col_en_nm}
             next ==
                IF hit # {}
                THEN IF col.col_cn_nm # ""
                     THEN Done(SetDescription(res.st, table_id, col.col_en_nm,
                                              col.col_cn_nm))
                     ELSE res
                ELSE _insert_single_column(res, table_id, table_data.schema_name,
                                           table_data.table_name, col, script_id)
         IN MergeFromLastWins(next, existing_columns, table_id, table_data, script_id,
                              i + 1)

RECURSIVE MergeFrom(_, _, _, _, _, _)
MergeFrom(res, existing_columns, table_id, table_data, script_id, i) ==
    IF i > Len(table_data.columns) \/ ~res.ok THEN res
    ELSE LET col == table_data.columns[i]
             hit == {c \in existing_columns : c.column_name = col.col_en_nm}
             next ==
                IF hit # {}
                THEN LET existing == CHOOSE c \in hit : TRUE
                     IN IF col.col_cn_nm # "" /\ existing.description # ""
                           /\ col.col_cn_nm # existing.description
                        THEN res
                        ELSE IF col.col_cn_nm # "" /\ existing.description = ""
                        THEN Done(SetDescription(res.st, table_id, col.col_en_nm,
                                                 col.col_cn_nm))
                        ELSE res
                ELSE _insert_single_column(res, table_id, table_data.schema_name,
                                           table_data.table_name, col, script_id)
         IN MergeFrom(next, existing_columns, table_id, table_data, script_id, i + 1)

_merge_statement_info(st, table_id, table_data, script_id) ==
    MergeFrom(Done(st), ColumnsOf(st, table_id), table_id, table_data, script_id, 1)

\* ------------------------------------------------------------------------
\* Conflict resolution
\* ------------------------------------------------------------------------
merge_strategies(existing_type, new_type) ==
    IF existing_type \in {"CREATE_TABLE_AS", "CREATE_VIEW"} /\ new_type \in dml_types
    THEN "SUPPLEMENT_CHINESE_NAMES"
    ELSE "MERGE_INFO"

get_conflict_strategy(existing_type, new_type) ==
    IF existing_type \in ddl_types \/ new_type \in ddl_types
    THEN IF existing_type \in ddl_types /\ new_type \in ddl_types
         THEN IF existing_type = new_type THEN "ERROR"
              ELSE IF existing_type = "CREATE_TABLE" \/ new_type = "CREATE_TABLE"
              THEN "KEEP_CREATE_TABLE"
              ELSE "KEEP_CREATE_TABLE"
         ELSE "KEEP_CREATE_TABLE"
    ELSE merge_strategies(existing_type, new_type)

\* the identity under which _process_table_data looks a record up
TableIdOf(table_data, script_id) ==
    _generate_table_id(table_data.schema_name, table_data.table_name,
                       IF table_data.table_type = "TMP_TABLE" THEN script_id ELSE "")

\* variant: a new EXTERNAL record is resolved like any other
_process_table_data_without_skip(st, table_data, script_id) ==
    LET data_source == table_data.data_source
        is_tmp_table == table_data.table_type = "TMP_TABLE"
        current_script_id == IF is_tmp_table THEN script_id ELSE ""
        table_id == _generate_table_id(table_data.schema_name, table_data.table_name,
                                       current_script_id)
    IN IF HasTable(st, table_id)
       THEN LET existing_data_source == TableRow(st, table_id).data_source
                strategy == get_conflict_strategy(existing_data_source, data_source)
            IN IF existing_data_source = "EXTERNAL"
               THEN _update_table_with_statement(st, table_id, table_data,
                                                 current_script_id, data_source)
               ELSE IF strategy = "ERROR" THEN Raised(st)
               ELSE IF strategy = "KEEP_CREATE_TABLE"
               THEN _update_table_with_statement(st, table_id, table_data,
                                                 current_script_id, data_source)
               ELSE IF strategy = "SUPPLEMENT_CHINESE_NAMES"
               THEN _supplement_chinese_names_only(st, table_id, table_data,
                                                   current_script_id)
               ELSE _merge_statement_info(st, table_id, table_data, current_script_id)
       ELSE _insert_new_table(st, table_data, current_script_id)

_process_table_data(st, table_data, script_id) ==
    LET data_source == table_data.data_source
        is_tmp_table == table_data.table_type = "TMP_TABLE"
        current_script_id == IF is_tmp_table THEN script_id ELSE ""
        table_id == _generate_table_id(table_data.schema_name, table_data.table_name,
                                       current_script_id)
    IN IF HasTable(st, table_id)
       THEN LET existing_data_source == TableRow(st, table_id).data_source
                strategy == get_conflict_strategy(existing_data_source, data_source)
            IN IF data_source = "EXTERNAL" THEN Done(st)
               ELSE IF existing_data_source = "EXTERNAL"
               THEN _update_table_with_statement(st, table_id, table_data,
                                                 current_script_id, data_source)
               ELSE IF strategy = "ERROR" THEN Raised(st)
               ELSE IF strategy = "KEEP_CREATE_TABLE"
               THEN _update_table_with_statement(st, table_id, table_data,
                                                 current_script_id, data_source)
               ELSE IF strategy = "SUPPLEMENT_CHINESE_NAMES"
               THEN _supplement_chinese_names_only(st, table_id, table_data,
                                                   current_script_id)
               ELSE _merge_statement_info(st, table_id, table_data, current_script_id)
       ELSE _insert_new_table(st, table_data, current_script_id)

\* ------------------------------------------------------------------------
\* Strings as the code reads them: character by character
\* ------------------------------------------------------------------------
\* the path of the i-th file of a directory, i < 10
FileName(i) == "f" \o ToString(i) \o ".sql"

\* the names the model's scripts use, spelled out
Chars(str) ==
    CASE str = "" -> <<>>
      [] str = "s" -> <<"s">>
      [] str = "A" -> <<"A">>
      [] str = "B" -> <<"B">>
      [] str = "TMP_T" -> <<"T", "M", "P", "_", "T">>
      [] str = "T" -> <<"T">>
      [] str = "s.A" -> <<"s", ".", "A">>
      [] str = "s.B" -> <<"s", ".", "B">>
      [] str = "TABLE" -> <<"T", "A", "B", "L", "E">>
      [] str = "table" -> <<"t", "a", "b", "l", "e">>
      [] str = "VIEW" -> <<"V", "I", "E", "W">>
      [] str = "INDEX" -> <<"I", "N", "D", "E", "X">>
      [] \E i \in 1..9 : str = FileName(i) ->
            <<"f", ToString(CHOOSE i \in 1..9 : str = FileName(i)), ".", "s", "q", "l">>

RECURSIVE Join(_)
Join(chars) == IF chars = <<>> THEN "" ELSE Head(chars) \o Join(Tail(chars))

Upper(ch) ==
    CASE ch = "s" -> "S" [] ch = "f" -> "F" [] ch = "q" -> "Q" [] ch = "l" -> "L"
      [] ch = "t" -> "T" [] ch = "a" -> "A" [] ch = "b" -> "B" [] ch = "e" -> "E"
      [] OTHER -> ch

UpperAll(chars) == [i \in 1..Len(chars) |-> Upper(chars[i])]

StartsWith(chars, prefix) ==
    Len(prefix) <= Len(chars) /\ SubSeq(chars, 1, Len(prefix)) = prefix

\* position of the first and of the last ch in chars, 0 when absent
Find(chars, ch) == FirstIndex({i \in 1..Len(chars) : chars[i] = ch})

RFind(chars, ch) ==
    IF \E i \in 1..Len(chars) : chars[i] = ch
    THEN CHOOSE i \in 1..Len(chars) :
            chars[i] = ch /\ \A j \in (i + 1)..Len(chars) : chars[j] # ch
    ELSE 0

\* os.path.splitext(os.path.basename(path))[0]
ScriptIdOf(sql_file_path) ==
    LET chars == Chars(sql_file_path)
        slash == RFind(chars, "/")
        base == SubSeq(chars, slash + 1, Len(chars))
        dot == RFind(base, ".")
    IN Join(IF dot > 1 THEN SubSeq(base, 1, dot - 1) ELSE base)

_parse_full_table_name(full_name) ==
    LET chars == Chars(full_name)
        dot == Find(chars, ".")
        rest == SubSeq(chars, dot + 1, Len(chars))
        dot2 == Find(rest, ".")
    IN IF dot # 0
       THEN <<Join(SubSeq(chars, 1, dot - 1)),
              Join(IF dot2 # 0 THEN SubSeq(rest, 1, dot2 - 1) ELSE rest)>>
       ELSE <<"", full_name>>

\* ------------------------------------------------------------------------
\* Dependency graph of one script and its targets and sources
\* ------------------------------------------------------------------------
FullName(schema, name) == IF schema # "" THEN schema \o "." \o name ELSE name

EmptyGraph == [nodes |-> {}, edges |-> {}]

RECURSIVE GraphSources(_, _, _, _)
GraphSources(graph, target_full_name, source_tables, i) ==
    IF i > Len(source_tables) THEN graph
    ELSE LET src == source_tables[i]
             source_full_name == FullName(src.schema_nm, src.tbl_en_nm)
             next == IF src.tbl_en_nm = "" THEN graph
                     ELSE [nodes |-> graph.nodes \cup {source_full_name},
                           edges |-> graph.edges \cup
                                     {<<source_full_name, target_full_name>>}]
         IN GraphSources(next, target_full_name, source_tables, i + 1)

RECURSIVE GraphFrom(_, _, _)
GraphFrom(graph, extracted_data, i) ==
    IF i > Len(extracted_data) THEN graph
    ELSE LET metadata == extracted_data[i]
             target_name == metadata.target_table.tbl_en_nm
             target_full_name == FullName(metadata.target_table.schema_nm, target_name)
             next == IF target_name = "" THEN graph
                     ELSE GraphSources([graph EXCEPT !.nodes = @ \cup {target_full_name}],
                                       target_full_name, metadata.source_tables, 1)
         IN GraphFrom(next, extracted_data, i + 1)

_build_dependency_graph(extracted_data) == GraphFrom(EmptyGraph, extracted_data, 1)

in_degree(graph, node) == Cardinality({e \in graph.edges : e[2] = node})

out_degree(graph, node) == Cardinality({e \in graph.edges : e[1] = node})

temp_prefixes ==
    {<<"V", "T", "_">>, <<"T", "M", "P", "_">>, <<"T", "E", "M", "P", "_">>,
     <<"V", "O", "L", "A", "T", "I", "L", "E", "_">>, <<"#">>}

\* variant: every table without a schema counts as a temp table
is_temp_table_by_schema_only(table_name) == Find(Chars(table_name), ".") = 0

is_temp_table(table_name) ==
    LET chars == Chars(table_name)
    IN IF Find(chars, ".") = 0
       THEN \E prefix \in temp_prefixes : StartsWith(UpperAll(chars), prefix)
       ELSE FALSE

\* <<target_tables, source_tables>>
_identify_target_and_source_tables(graph) ==
    LET strategy1 == {n \in graph.nodes : in_degree(graph, n) > 0 /\ ~is_temp_table(n)}
        strategy2 == {n \in graph.nodes : out_degree(graph, n) = 0}
        target_tables == IF strategy1 # {} THEN strategy1 ELSE strategy2
        source_tables == {n \in graph.nodes : in_degree(graph, n) = 0}
    IN <<target_tables, source_tables>>

\* ------------------------------------------------------------------------
\* Summary derivation (lineage_graph_manager.py)
\* ------------------------------------------------------------------------
max_path_length == 20

\* the detail graph of one script: the persisted detail rows joined with their
\* tables and their statement
build_detail_graph(st, script_id) ==
    LET rows == {d \in st.data_lineage_detail :
                    /\ d.script_id = script_id
                    /\ HasTable(st, d.source_table_id)
                    /\ HasTable(st, d.target_table_id)
                    /\ \E x \in st.script_statements : x.id = d.statement_id}
        ids == {d.source_table_id : d \in rows} \cup {d.target_table_id : d \in rows}
        StatementOf(d) == CHOOSE x \in st.script_statements : x.id = d.statement_id
        \* rows come ordered by statement_index, and add_edge on an edge the
        \* DiGraph already has replaces the edge's attributes
        LastOf(p) == CHOOSE d \in rows :
                        /\ <<d.source_table_id, d.target_table_id>> = p
                        /\ \A d2 \in rows :
                              <<d2.source_table_id, d2.target_table_id>> = p =>
                                 StatementOf(d2).statement_index
                                    <= StatementOf(d).statement_index
        pairs == {<<d.source_table_id, d.target_table_id>> : d \in rows}
    IN [nodes |-> ids,
        is_entity |-> [n \in ids |-> TableRow(st, n).table_type \in {"TABLE", "VIEW"}],
        edges |-> pairs,
        edge_data |-> [p \in pairs |->
                         [statement_id |-> LastOf(p).statement_id,
                          statement_index |-> StatementOf(LastOf(p)).statement_index,
                          statement_type |-> StatementOf(LastOf(p)).statement_type]]]

\* the simple paths that extend path to target, of at most cutoff edges
RECURSIVE SimplePathsFrom(_, _, _, _)
SimplePathsFrom(edges, path, target, cutoff) ==
    LET last == path[Len(path)]
    IN IF last = target THEN {path}
       ELSE IF Len(path) - 1 >= cutoff THEN {}
       ELSE UNION {SimplePathsFrom(edges, Append(path, e[2]), target, cutoff) :
                     e \in {x \in edges : x[1] = last /\ x[2] \notin Range(path)}}

\* variant: the search is not cut off
all_simple_paths_uncut(graph, source, target, cutoff) ==
    SimplePathsFrom(graph.edges, <<source>>, target, Cardinality(graph.nodes))

\* variant: only the paths of the fewest hops are returned
all_shortest_paths(graph, source, target, cutoff) ==
    LET paths == SimplePathsFrom(graph.edges, <<source>>, target, cutoff)
    IN {p \in paths : \A q \in paths : Len(p) <= Len(q)}

\* variant: the search goes one hop beyond the cutoff
all_simple_paths_one_more(graph, source, target, cutoff) ==
    SimplePathsFrom(graph.edges, <<source>>, target, cutoff + 1)

all_simple_paths(graph, source, target, cutoff) ==
    SimplePathsFrom(graph.edges, <<source>>, target, cutoff)

SetMin(S) == CHOOSE x \in S : \A y \in S : x <= y

SetMax(S) == CHOOSE x \in S : \A y \in S : x >= y

\* variant: every node of the detail graph is paired, entity or not
generate_summary_graph_of_all_nodes(detail_graph, cutoff) ==
    LET pairs == {p \in detail_graph.nodes \X detail_graph.nodes :
                    /\ p[1] # p[2]
                    /\ all_simple_paths(detail_graph, p[1], p[2], cutoff) # {}}
    IN {LET paths == all_simple_paths(detail_graph, p[1], p[2], cutoff)
        IN [source |-> p[1], target |-> p[2],
            path_count |-> Cardinality(paths),
            min_hop_count |-> SetMin({Len(q) - 1 : q \in paths}),
            max_hop_count |-> SetMax({Len(q) - 1 : q \in paths})] : p \in pairs}

\* the edges of the summary graph
generate_summary_graph(detail_graph, cutoff) ==
    LET entity_nodes == {n \in detail_graph.nodes : detail_graph.is_entity[n]}
        pairs == {p \in entity_nodes \X entity_nodes :
                    /\ p[1] # p[2]
                    /\ all_simple_paths(detail_graph, p[1], p[2], cutoff) # {}}
    IN {LET paths == all_simple_paths(detail_graph, p[1], p[2], cutoff)
        IN [source |-> p[1], target |-> p[2],
            path_count |-> Cardinality(paths),
            min_hop_count |-> SetMin({Len(q) - 1 : q \in paths}),
            max_hop_count |-> SetMax({Len(q) - 1 : q \in paths})] : p \in pairs}

save_summary_to_db(st, summary_graph, script_id) ==
    LET rows == {[id |-> e.target \o "__" \o e.source \o "__" \o script_id,
                  target_table_id |-> e.target,
                  source_table_id |-> e.source,
                  script_id |-> script_id] : e \in summary_graph}
    IN [st EXCEPT !.data_lineage_summary =
            {r \in @ : \A n \in rows : n.id # r.id} \cup rows]

\* fails = TRUE: the derivation raises before it saves; the caller swallows it
generate_lineage_summary(st, script_id, fails) ==
    IF fails THEN st
    ELSE save_summary_to_db(st,
             generate_summary_graph(build_detail_graph(st, script_id), max_path_length),
             script_id)

\* ------------------------------------------------------------------------
\* _populate_script_tables
\* ------------------------------------------------------------------------
Pad3(n) ==
    IF n < 10 THEN "00" \o ToString(n)
    ELSE IF n < 100 THEN "0" \o ToString(n) ELSE ToString(n)

StatementId(script_id, idx) == script_id \o "__STMT_" \o Pad3(idx)

\* variant: the cleanup removes the script's own table records as well
_cleanup_script_data_and_tables(st, script_id) ==
    IF ~\E r \in st.sql_scripts : r.id = script_id THEN st
    ELSE [st EXCEPT
            !.data_lineage_summary = {r \in @ : r.script_id # script_id},
            !.data_lineage_detail = {r \in @ : r.script_id # script_id},
            !.script_statements = {r \in @ : r.script_id # script_id},
            !.tables = {r \in @ : r.script_id # script_id}]

_cleanup_script_data(st, script_id) ==
    IF ~\E r \in st.sql_scripts : r.id = script_id THEN st
    ELSE [st EXCEPT
            !.data_lineage_summary = {r \in @ : r.script_id # script_id},
            !.data_lineage_detail = {r \in @ : r.script_id # script_id},
            !.script_statements = {r \in @ : r.script_id # script_id}]

\* variant: the persistent identity, persisted or not
LookupTableIdUnchecked(st, schema, name, script_id) ==
    _generate_table_id(schema, name, "")

\* the persistent identity when it is persisted, else the script's, else ""
LookupTableId(st, schema, name, script_id) ==
    IF HasTable(st, _generate_table_id(schema, name, ""))
    THEN _generate_table_id(schema, name, "")
    ELSE IF HasTable(st, _generate_table_id(schema, name, script_id))
    THEN _generate_table_id(schema, name, script_id)
    ELSE ""

\* INSERT OR REPLACE on the primary key id
Upsert(rows, row) == {r \in rows : r.id # row.id} \cup {row}

RECURSIVE StatementsFrom(_, _, _, _, _)
StatementsFrom(st, parsed_statements, extracted_data, script_id, idx) ==
    IF idx > Len(parsed_statements) THEN st
    ELSE LET target_table == IF idx <= Len(extracted_data)
                             THEN extracted_data[idx].target_table
                             ELSE [schema_nm |-> "", tbl_en_nm |-> "", tbl_cn_nm |-> ""]
             target_table_id ==
                IF idx <= Len(extracted_data) /\ target_table.tbl_en_nm # ""
                THEN LookupTableId(st, target_table.schema_nm, target_table.tbl_en_nm,
                                   script_id)
                ELSE ""
             row == [id |-> StatementId(script_id, idx),
                     script_id |-> script_id,
                     statement_index |-> idx,
                     statement_type |-> parsed_statements[idx].statement_type,
                     target_table_id |-> target_table_id]
         IN StatementsFrom([st EXCEPT !.script_statements = Upsert(@, row)],
                           parsed_statements, extracted_data, script_id, idx + 1)

\* the insert of _create_external_table_record names twelve columns and gives
\* thirteen values: it raises whenever it is reached
_create_external_table_record(st, schema_name, table_name) ==
    IF HasTable(st, _generate_table_id(schema_name, table_name, "")) THEN Done(st)
    ELSE Raised(st)

RECURSIVE DetailSources(_, _, _, _, _, _)
DetailSources(res, target_table_id, source_tables, script_id, statement_id, i) ==
    IF i > Len(source_tables) \/ ~res.ok THEN res
    ELSE LET src == source_tables[i]
             found == LookupTableId(res.st, src.schema_nm, src.tbl_en_nm, script_id)
             created == _create_external_table_record(res.st, src.schema_nm, src.tbl_en_nm)
             source_table_id == IF found # "" THEN found
                                ELSE _generate_table_id(src.schema_nm, src.tbl_en_nm, "")
             row == [id |-> target_table_id \o "__" \o source_table_id \o "__"
                            \o statement_id,
                     target_table_id |-> target_table_id,
                     source_table_id |-> source_table_id,
                     script_id |-> script_id,
                     statement_id |-> statement_id]
             next == IF src.tbl_en_nm = "" THEN res
                     ELSE IF found = "" /\ ~created.ok THEN created
                     ELSE Done([res.st EXCEPT !.data_lineage_detail = Upsert(@, row)])
         IN DetailSources(next, target_table_id, source_tables, script_id,
                          statement_id, i + 1)

RECURSIVE DetailFrom(_, _, _, _)
DetailFrom(res, extracted_data, script_id, idx) ==
    IF idx > Len(extracted_data) \/ ~res.ok THEN res
    ELSE LET metadata == extracted_data[idx]
             target_table == metadata.target_table
             target_table_id == LookupTableId(res.st, target_table.schema_nm,
                                              target_table.tbl_en_nm, script_id)
             next == IF target_table.tbl_en_nm = "" \/ target_table_id = "" THEN res
                     ELSE DetailSources(res, target_table_id, metadata.source_tables,
                                        script_id, StatementId(script_id, idx), 1)
         IN DetailFrom(next, extracted_data, script_id, idx + 1)

_populate_script_tables(st, script_id, parsed_statements, extracted_data, summary_fails) ==
    LET st0 == _cleanup_script_data(st, script_id)
        st1 == [st0 EXCEPT !.sql_scripts =
                    Upsert(@, [id |-> script_id, script_content |-> parsed_statements])]
        st2 == StatementsFrom(st1, parsed_statements, extracted_data, script_id, 1)
        res == DetailFrom(Done(st2), extracted_data, script_id, 1)
    IN IF ~res.ok THEN res
       ELSE Done(generate_lineage_summary(res.st, script_id, summary_fails))

\* ------------------------------------------------------------------------
\* _update_global_lineage: the graph kept in datalineage.json
\* ------------------------------------------------------------------------
EmptyLineage == [nodes |-> {}, edges |-> {}]

GlobalNode(full_name) ==
    [id |-> full_name,
     schema |-> _parse_full_table_name(full_name)[1],
     table |-> _parse_full_table_name(full_name)[2]]

\* variant: the script is appended to the provenance list in any case
GlobalEdgeAppending(global_graph, sql_file_path, source_table, target_table) ==
    LET old == {e \in global_graph.edges :
                    e.source = source_table /\ e.target = target_table}
    IN IF old # {}
       THEN [(CHOOSE x \in old : TRUE) EXCEPT !.script_paths = Append(@, sql_file_path)]
       ELSE [source |-> source_table, target |-> target_table,
             script_paths |-> <<sql_file_path>>]

GlobalEdge(global_graph, sql_file_path, source_table, target_table) ==
    LET old == {e \in global_graph.edges :
                    e.source = source_table /\ e.target = target_table}
    IN IF old # {}
       THEN LET e == CHOOSE x \in old : TRUE
            IN IF sql_file_path \in Range(e.script_paths) THEN e
               ELSE [e EXCEPT !.script_paths = Append(@, sql_file_path)]
       ELSE [source |-> source_table, target |-> target_table,
             script_paths |-> <<sql_file_path>>]

_update_global_lineage(global_graph, sql_file_path, target_tables, source_tables) ==
    LET touched == source_tables \X target_tables
        named == target_tables \cup (IF target_tables = {} THEN {} ELSE source_tables)
    IN [nodes |-> global_graph.nodes \cup
                  {GlobalNode(n) : n \in {m \in named :
                                            \A g \in global_graph.nodes : g.id # m}},
        edges |-> {e \in global_graph.edges : <<e.source, e.target>> \notin touched}
                  \cup {GlobalEdge(global_graph, sql_file_path, p[1], p[2]) :
                          p \in touched}]

\* ------------------------------------------------------------------------
\* The scripts the model processes
\* ------------------------------------------------------------------------
Ref(schema, name) == [schema_nm |-> schema, tbl_en_nm |-> name]

Target(schema, name, label) ==
    [schema_nm |-> schema, tbl_en_nm |-> name, tbl_cn_nm |-> label]

Col(name, label) == [col_en_nm |-> name, col_cn_nm |-> label]

Stmt(type, temporary, target, columns, sources) ==
    [statement_type |-> type, temporary |-> temporary, target_table |-> target,
     target_columns |-> columns, source_tables |-> sources]

\* definitions of s.A of two kinds, writes to s.A and s.B with columns that
\* are new, unlabelled or labelled differently, a temp table with a column
\* that is fed from itself, and a write to s.A that reads a table without a
\* schema, and a statement the classifier does not know, such as a DROP
Statements ==
    {Stmt("CREATE_TABLE", FALSE, Target("s", "A", "L"), <<Col("c1", "")>>, <<>>),
     Stmt("CREATE_VIEW", FALSE, Target("s", "A", ""), <<Col("c1", "x")>>,
          <<Ref("s", "B")>>),
     Stmt("INSERT_SELECT", FALSE, Target("s", "A", ""),
          <<Col("c1", "x"), Col("c2", "")>>, <<Ref("s", "B")>>),
     Stmt("UPDATE", FALSE, Target("s", "A", ""),
          <<Col("c1", "y"), Col("c2", "y"), Col("c3", "")>>, <<>>),
     Stmt("INSERT_SELECT", FALSE, Target("s", "B", ""), <<Col("c2", "y")>>,
          <<Ref("s", "A")>>),
     Stmt("INSERT_SELECT", FALSE, Target("", "TMP_T", ""), <<Col("c1", "")>>,
          <<Ref("", "TMP_T")>>),
     Stmt("INSERT_SELECT", FALSE, Target("s", "A", ""), <<>>, <<Ref("", "TMP_T")>>),
     Stmt("UNKNOWN", FALSE, Target("", "", ""), <<>>, <<>>)}

RECURSIVE SeqsUpTo(_, _)
SeqsUpTo(S, n) ==
    IF n = 0 THEN {<<>>}
    ELSE LET shorter == SeqsUpTo(S, n - 1)
         IN shorter \cup {Append(q, x) : q \in shorter, x \in S}

\* a script is the sequence of its parsed statements; <<>> is an empty file
Scripts == SeqsUpTo(Statements, MaxStmts)

\* the files os.walk finds in a directory of n files, in the order of the loop
SqlFiles(n) == [i \in 1..n |-> FileName(i)]

\* ------------------------------------------------------------------------
\* State
\* ------------------------------------------------------------------------
VARIABLES
    db,       \* the committed store (dw_metadata.db)
    txn,      \* the store as the open transaction sees it
    gl,       \* the global lineage graph (datalineage.json)
    pc,       \* where process_sql_file stands: idle, tables, populate, global
    cur,      \* the file process_sql_file is working on
    batch,    \* the process_sql_directory call: files found, files done, result
    history,  \* every process_sql_file call so far: file, script, outcome
    graph,    \* a graph handed to the graph operations on their own
    summary,  \* what generate_summary_graph made of it
    identified, \* what _identify_target_and_source_tables made of it
    statement, \* a parsed statement handed to the classifier on its own
    classified \* what _classify_statement_type and the loop made of it

vars == <<db, txn, gl, pc, cur, batch, history, graph, summary, identified,
          statement, classified>>

NoFile ==
    [sql_file_path |-> "", script_id |-> "", parsed_statements |-> <<>>,
     extracted_data |-> <<>>, tables_data |-> <<>>, pos |-> 0,
     target_tables |-> {}, source_tables |-> {}, summary_failed |-> FALSE]

\* the graph operations have no state of their own in process_sql_directory
NoGraph == [nodes |-> {}, edges |-> {}, max_path_length |-> 0]

NoSummary == [done |-> FALSE, edges |-> {}]

NoIdentified == [done |-> FALSE, target_tables |-> {}, source_tables |-> {},
                 error_msg |-> ""]

\* the classifier has no state of its own in process_sql_directory
NoAst == [class |-> "", kind |-> "", temporary |-> FALSE, expression |-> "",
          columns |-> FALSE]

NoClassified == [statement_type |-> "", _type |-> ""]

NoBatch == [status |-> "none", sql_files |-> <<>>, processed |-> <<>>,
            success |-> TRUE, errors |-> <<>>]

Init ==
    /\ db = EmptyStore
    /\ txn = EmptyStore
    /\ gl = EmptyLineage
    /\ pc = "idle"
    /\ cur = NoFile
    /\ batch = NoBatch
    /\ history = <<>>
    /\ graph = NoGraph
    /\ summary = NoSummary
    /\ identified = NoIdentified
    /\ statement = NoAst
    /\ classified = NoClassified

\* process_sql_directory up to its loop: n files were found; with none it
\* returns success at once
StartBatch(n) ==
    /\ pc = "idle"
    /\ batch.status # "running"
    /\ Len(history) < MaxFiles
    /\ batch' = [status |-> IF n = 0 THEN "done" ELSE "running",
                 sql_files |-> SqlFiles(n), processed |-> <<>>,
                 success |-> TRUE, errors |-> <<>>]
    /\ UNCHANGED <<db, txn, gl, pc, cur, history>>

\* variant: the loop goes on to the next file after a failure
ReturnToBatchBestEffort(sql_file_path, script, success, error_msg) ==
    /\ history' = Append(history, [file |-> sql_file_path, script |-> script,
                                   success |-> success, error |-> error_msg,
                                   summary_failed |-> cur.summary_failed])
    /\ batch' =
         [batch EXCEPT
            !.processed = Append(@, sql_file_path),
            !.errors = IF success THEN @
                       ELSE Append(@, [file |-> sql_file_path, error |-> error_msg]),
            !.success = @ /\ success,
            !.status = IF Len(batch.processed) + 1 = Len(batch.sql_files)
                       THEN "done" ELSE "running"]
    /\ pc' = "idle"
    /\ cur' = NoFile

\* process_sql_file returns (success, error_msg) to the loop of
\* process_sql_directory, which stops at the first failure
ReturnToBatch(sql_file_path, script, success, error_msg) ==
    /\ history' = Append(history, [file |-> sql_file_path, script |-> script,
                                   success |-> success, error |-> error_msg,
                                   summary_failed |-> cur.summary_failed])
    /\ batch' =
         IF success
         THEN [batch EXCEPT
                 !.processed = Append(@, sql_file_path),
                 !.status = IF Len(batch.processed) + 1 = Len(batch.sql_files)
                            THEN "done" ELSE "running"]
         ELSE [batch EXCEPT
                 !.processed = Append(@, sql_file_path),
                 !.errors = Append(@, [file |-> sql_file_path, error |-> error_msg]),
                 !.success = FALSE,
                 !.status = "done"]
    /\ pc' = "idle"
    /\ cur' = NoFile

ExtractedData(script) ==
    SelectSeq(script, LAMBDA m : m.statement_type \in ddl_types \cup dml_types)

\* process_sql_file from reading the file to BEGIN TRANSACTION; the loop of
\* process_sql_directory hands it the files in their order, and script is
\* what the file holds when it is read
ProcessSqlFile(sql_file_path, script) ==
    /\ pc = "idle"
    /\ batch.status = "running"
    /\ sql_file_path = batch.sql_files[Len(batch.processed) + 1]
    /\ Len(history) < MaxFiles
    /\ LET extracted_data == ExtractedData(script)
           tables_data == _consolidate_metadata(extracted_data)
           dependency_graph == _build_dependency_graph(extracted_data)
           ts == _identify_target_and_source_tables(dependency_graph)
       IN IF script = <<>>
          THEN /\ ReturnToBatch(sql_file_path, script, TRUE, "")
               /\ UNCHANGED <<db, txn, gl>>
          ELSE IF extracted_data = <<>>
          THEN /\ ReturnToBatch(sql_file_path, script, FALSE, "no metadata extracted")
               /\ UNCHANGED <<db, txn, gl>>
          ELSE IF ts[1] = {}
          THEN /\ ReturnToBatch(sql_file_path, script, FALSE, "no target table")
               /\ UNCHANGED <<db, txn, gl>>
          ELSE /\ cur' = [sql_file_path |-> sql_file_path,
                          script_id |-> ScriptIdOf(sql_file_path),
                          parsed_statements |-> script,
                          extracted_data |-> extracted_data,
                          tables_data |-> tables_data,
                          pos |-> 1,
                          target_tables |-> ts[1],
                          source_tables |-> ts[2],
                          summary_failed |-> FALSE]
               /\ pc' = "tables"
               /\ txn' = db
               /\ UNCHANGED <<db, gl, batch, history>>

\* one pass of the loop over tables_data
ProcessTableData ==
    /\ pc = "tables"
    /\ LET res == _process_table_data(txn, cur.tables_data[cur.pos], cur.script_id)
       IN IF res.ok
          THEN /\ txn' = res.st
               /\ cur' = [cur EXCEPT !.pos = @ + 1]
               /\ pc' = IF cur.pos = Len(cur.tables_data) THEN "populate" ELSE "tables"
               /\ UNCHANGED <<db, gl, batch, history>>
          ELSE /\ txn' = db
               /\ ReturnToBatch(cur.sql_file_path, cur.parsed_statements, FALSE,
                                "table conflict")
               /\ UNCHANGED <<db, gl>>

\* variant: a failure leaves what the script wrote so far in the store
PopulateWithoutRollback(store_raises, summary_fails) ==
    /\ pc = "populate"
    /\ LET res == _populate_script_tables(txn, cur.script_id, cur.parsed_statements,
                                          cur.extracted_data, summary_fails)
       IN IF res.ok /\ ~store_raises
          THEN /\ txn' = res.st
               /\ pc' = "global"
               /\ cur' = [cur EXCEPT !.summary_failed = summary_fails]
               /\ UNCHANGED <<db, gl, batch, history>>
          ELSE /\ txn' = txn
               /\ db' = txn
               /\ ReturnToBatch(cur.sql_file_path, cur.parsed_statements, FALSE,
                                "unexpected error")
               /\ UNCHANGED gl

\* store_raises: a write of the store raises; summary_fails: the summary
\* derivation raises
PopulateScriptTables(store_raises, summary_fails) ==
    /\ pc = "populate"
    /\ LET res == _populate_script_tables(txn, cur.script_id, cur.parsed_statements,
                                          cur.extracted_data, summary_fails)
       IN IF res.ok /\ ~store_raises
          THEN /\ txn' = res.st
               /\ pc' = "global"
               /\ cur' = [cur EXCEPT !.summary_failed = summary_fails]
               /\ UNCHANGED <<db, gl, batch, history>>
          ELSE /\ txn' = db
               /\ ReturnToBatch(cur.sql_file_path, cur.parsed_statements, FALSE,
                                "unexpected error")
               /\ UNCHANGED <<db, gl>>

\* the merge into datalineage.json, then conn.commit()
UpdateGlobalLineage ==
    /\ pc = "global"
    /\ gl' = _update_global_lineage(gl, cur.sql_file_path, cur.target_tables,
                                    cur.source_tables)
    /\ db' = txn
    /\ txn' = txn
    /\ ReturnToBatch(cur.sql_file_path, cur.parsed_statements, TRUE, "")

Next ==
    /\ \/ \E n \in 0..MaxBatch : StartBatch(n)
       \/ \E f \in Range(batch.sql_files), script \in Scripts : ProcessSqlFile(f, script)
       \/ ProcessTableData
       \/ \E store_raises \in BOOLEAN, summary_fails \in BOOLEAN :
             PopulateScriptTables(store_raises, summary_fails)
       \/ UpdateGlobalLineage
    /\ UNCHANGED <<graph, summary, identified, statement, classified>>

Spec == Init /\ [][Next]_vars

\* ------------------------------------------------------------------------
\* The graph operations on their own: generate_summary_graph and
\* _identify_target_and_source_tables applied to every graph of at most
\* MaxEdges edges over four tables
\* ------------------------------------------------------------------------
\* two tables with a schema, a schema-less table with a temp prefix and one
\* without
GraphNodes == {"s.A", "s.B", "TMP_T", "T"}

RECURSIVE EdgeSetsUpTo(_)
EdgeSetsUpTo(n) ==
    IF n = 0 THEN {{}}
    ELSE LET fewer == EdgeSetsUpTo(n - 1)
         IN fewer \cup {E \cup {e} : E \in fewer, e \in GraphNodes \X GraphNodes}

Endpoints(edges) == {e[1] : e \in edges} \cup {e[2] : e \in edges}

\* _determine_table_type gives a DML target without a schema the kind
\* TMP_TABLE; build_detail_graph makes is_entity of the kind
DetailGraphOf(g) ==
    [nodes |-> g.nodes,
     is_entity |-> [n \in g.nodes |-> Find(Chars(n), ".") # 0],
     edges |-> g.edges]

InitGraph ==
    /\ db = EmptyStore
    /\ txn = EmptyStore
    /\ gl = EmptyLineage
    /\ pc = "idle"
    /\ cur = NoFile
    /\ batch = NoBatch
    /\ history = <<>>
    /\ \E edges \in EdgeSetsUpTo(MaxEdges), alone \in SUBSET GraphNodes,
          cutoff \in {2, max_path_length} :
          /\ Cardinality(alone) <= 1
          /\ graph = [nodes |-> Endpoints(edges) \cup alone, edges |-> edges,
                      max_path_length |-> cutoff]
    /\ summary = NoSummary
    /\ identified = NoIdentified
    /\ statement = NoAst
    /\ classified = NoClassified

\* LineageGraphManager.generate_summary_graph on the graph as detail graph
GenerateSummaryGraph ==
    /\ ~summary.done
    /\ summary' = [done |-> TRUE,
                   edges |-> generate_summary_graph(DetailGraphOf(graph),
                                                    graph.max_path_length)]
    /\ UNCHANGED <<db, txn, gl, pc, cur, batch, history, graph, identified>>

\* steps 7 of process_sql_file on the graph as dependency graph: the targets
\* and sources, and the failure when there is no target
IdentifyTargetAndSourceTables ==
    /\ ~identified.done
    /\ LET ts == _identify_target_and_source_tables(graph)
       IN identified' = [done |-> TRUE, target_tables |-> ts[1],
                         source_tables |-> ts[2],
                         error_msg |-> IF ts[1] = {} THEN "no target table" ELSE ""]
    /\ UNCHANGED <<db, txn, gl, pc, cur, batch, history, graph, summary>>

\* generate_lineage_summary once more, after the script's detail rows got
\* one more source and target: the detail graph is built anew with the edge
\* and the summary is derived from it
RebuildWithEdge(e) ==
    /\ summary.done
    /\ e \notin graph.edges
    /\ Cardinality(graph.edges) <= MaxEdges
    /\ graph' = [graph EXCEPT !.nodes = @ \cup {e[1], e[2]}, !.edges = @ \cup {e}]
    /\ summary' = [done |-> TRUE,
                   edges |-> generate_summary_graph(DetailGraphOf(graph'),
                                                    graph.max_path_length)]
    /\ identified' = NoIdentified
    /\ UNCHANGED <<db, txn, gl, pc, cur, batch, history>>

NextGraph ==
    /\ \/ GenerateSummaryGraph
       \/ IdentifyTargetAndSourceTables
       \/ \E e \in GraphNodes \X GraphNodes : RebuildWithEdge(e)
    /\ UNCHANGED <<statement, classified>>

SpecGraph == InitGraph /\ [][NextGraph]_vars

\* generate_lineage_summary calls generate_summary_graph on every graph it
\* builds
SpecGraphLive ==
    SpecGraph /\ WF_vars(GenerateSummaryGraph /\ UNCHANGED <<statement, classified>>)

\* ------------------------------------------------------------------------
\* The classifier on its own: _classify_statement_type applied to every
\* shape of parsed statement, and what the loop of process_sql_file does
\* with the result
\* ------------------------------------------------------------------------
\* a parsed statement: the class of its root node, the kind of a CREATE or
\* DROP, whether a CREATE is TEMPORARY, the class of the expression argument
\* ("" when there is none) and whether a column list is given
Ast(class, kind, temporary, expression, columns) ==
    [class |-> class, kind |-> kind, temporary |-> temporary,
     expression |-> expression, columns |-> columns]

ParsedStatements ==
    {Ast("Create", kind, temporary, expression, columns) :
        kind \in {"TABLE", "table", "VIEW", "INDEX"}, temporary \in BOOLEAN,
        expression \in {"", "Select", "Union"}, columns \in BOOLEAN}
    \cup {Ast("Insert", "", FALSE, expression, columns) :
             expression \in {"", "Select", "Union", "Values"}, columns \in BOOLEAN}
    \cup {Ast(class, "", FALSE, "", FALSE) :
             class \in {"Update", "Merge", "Select", "Delete", "Command"}}
    \cup {Ast("Drop", "TABLE", FALSE, "", FALSE)}

_classify_statement_type(parsed_sql) ==
    IF parsed_sql.class = "Create"
    THEN IF parsed_sql.kind # "" /\ Join(UpperAll(Chars(parsed_sql.kind))) = "TABLE"
         THEN IF parsed_sql.expression # "" THEN "CREATE_TABLE_AS" ELSE "CREATE_TABLE"
         ELSE IF parsed_sql.kind # "" /\ Join(UpperAll(Chars(parsed_sql.kind))) = "VIEW"
         THEN "CREATE_VIEW"
         ELSE "UNKNOWN"
    ELSE IF parsed_sql.class = "Insert"
    THEN IF parsed_sql.expression # "" /\ parsed_sql.expression = "Select"
         THEN "INSERT_SELECT" ELSE "INSERT_VALUES"
    ELSE IF parsed_sql.class = "Update" THEN "UPDATE"
    ELSE IF parsed_sql.class = "Merge" THEN "MERGE"
    ELSE "UNKNOWN"

InitClassify ==
    /\ db = EmptyStore
    /\ txn = EmptyStore
    /\ gl = EmptyLineage
    /\ pc = "idle"
    /\ cur = NoFile
    /\ batch = NoBatch
    /\ history = <<>>
    /\ graph = NoGraph
    /\ summary = NoSummary
    /\ identified = NoIdentified
    /\ statement \in ParsedStatements
    /\ classified = NoClassified

ClassifyStatementType ==
    /\ classified.statement_type = ""
    /\ classified' = [classified EXCEPT
                         !.statement_type = _classify_statement_type(statement)]
    /\ UNCHANGED statement

\* the loop of process_sql_file: a DDL or DML statement gives a fact record,
\* any other statement is skipped
ExtractOrSkip ==
    /\ classified.statement_type # ""
    /\ classified._type = ""
    /\ classified' = [classified EXCEPT
                         !._type = IF classified.statement_type \in ddl_types THEN "DDL"
                                   ELSE IF classified.statement_type \in dml_types
                                   THEN "DML" ELSE "skipped"]
    /\ UNCHANGED statement

NextClassify ==
    /\ ClassifyStatementType \/ ExtractOrSkip
    /\ UNCHANGED <<db, txn, gl, pc, cur, batch, history, graph, summary, identified>>

SpecClassify == InitClassify /\ [][NextClassify]_vars

\* ------------------------------------------------------------------------
\* Vocabulary of the properties
\* ------------------------------------------------------------------------
\* While a transaction is open, db is the store as it was before the script
\* and txn the store the script has written so far.  Every consolidated record
\* has its own identity, so the row txn holds for a resolved record is the
\* result of its _process_table_data call and the row db holds is the
\* persisted record that call found.
InTransaction == pc \in {"tables", "populate", "global"}

\* the positions of tables_data that _process_table_data has resolved
Resolved ==
    IF pc = "tables" THEN 1..(cur.pos - 1)
    ELSE IF pc \in {"populate", "global"} THEN 1..Len(cur.tables_data)
    ELSE {}

NewRecord(i) == cur.tables_data[i]

IdentityOf(i) == TableIdOf(cur.tables_data[i], cur.script_id)

WasPersisted(i) == HasTable(db, IdentityOf(i))

ExistingRow(i) == TableRow(db, IdentityOf(i))

ResultRow(i) == TableRow(txn, IdentityOf(i))

\* columns as name/label pairs
PersistedColumns(st, table_id) ==
    {<<c.column_name, c.description>> : c \in ColumnsOf(st, table_id)}

RecordColumns(table_data) ==
    {<<c.col_en_nm, c.col_cn_nm>> : c \in Range(table_data.columns)}

Names(pairs) == {p[1] : p \in pairs}

LabelOf(pairs, name) == (CHOOSE p \in pairs : p[1] = name)[2]

\* the step in which process_sql_file returns to process_sql_directory
Returns == Len(history') = Len(history) + 1

Outcome == history'[Len(history')]

\* ------------------------------------------------------------------------
\* C1 - duplicate definition
\* ------------------------------------------------------------------------
\* the script being processed holds a definition statement of the kind that
\* the persisted record of the same table identity already has
RedefinesPersisted ==
    \E i \in 1..Len(cur.extracted_data) :
        LET m == cur.extracted_data[i]
            k == KeyIndex(cur.tables_data, m.target_table.schema_nm,
                          m.target_table.tbl_en_nm)
        IN /\ m.statement_type \in ddl_types
           /\ k # 0
           /\ WasPersisted(k)
           /\ ExistingRow(k).data_source = m.statement_type

\* C1: a script that defines a table again, with the kind its persisted record
\* has, never gets past conflict resolution: it fails there, whatever else
\* the script holds, so nothing of it is written or committed.
C1_DuplicateDefinitionFails ==
    (InTransaction /\ RedefinesPersisted) => pc = "tables"

\* ------------------------------------------------------------------------
\* C2 - an EXTERNAL record is overwritten fully
\* ------------------------------------------------------------------------
\* C2: for every resolved record whose persisted record had provenance
\* EXTERNAL, the persisted provenance, kind and label are those of the new
\* record and the persisted columns are exactly the new record's columns.
C2_ExternalOverwritten ==
    \A i \in Resolved :
        (WasPersisted(i) /\ ExistingRow(i).data_source = "EXTERNAL") =>
            /\ ResultRow(i).data_source = NewRecord(i).data_source
            /\ ResultRow(i).table_type = NewRecord(i).table_type
            /\ ResultRow(i).description = NewRecord(i).table_cn_name
            /\ PersistedColumns(txn, IdentityOf(i)) = RecordColumns(NewRecord(i))

\* an EXTERNAL record was overwritten by a definition that brings a label and
\* a column
C2_Witness ==
    \E i \in Resolved :
        /\ WasPersisted(i)
        /\ ExistingRow(i).data_source = "EXTERNAL"
        /\ NewRecord(i).data_source = "CREATE_TABLE"
        /\ NewRecord(i).table_cn_name # ""
        /\ NewRecord(i).columns # <<>>

\* ------------------------------------------------------------------------
\* C3 - a new EXTERNAL record is skipped
\* ------------------------------------------------------------------------
\* C3: for every resolved record of provenance EXTERNAL whose identity was
\* persisted, the persisted row and its columns are what they were.
C3_ExternalSkipped ==
    \A i \in Resolved :
        (WasPersisted(i) /\ NewRecord(i).data_source = "EXTERNAL") =>
            /\ ResultRow(i) = ExistingRow(i)
            /\ ColumnsOf(txn, IdentityOf(i)) = ColumnsOf(db, IdentityOf(i))

\* a defined table with columns was referenced as a source only
C3_Witness ==
    \E i \in Resolved :
        /\ WasPersisted(i)
        /\ NewRecord(i).data_source = "EXTERNAL"
        /\ ExistingRow(i).data_source # "EXTERNAL"
        /\ ColumnsOf(db, IdentityOf(i)) # {}

\* ------------------------------------------------------------------------
\* C4 - DDL persisted, DML new
\* ------------------------------------------------------------------------
\* C4: for every resolved DML record whose persisted record had a DDL
\* provenance, the provenance stays, no column is gained or lost, and a label
\* changes only from empty.
C4_DdlRetained ==
    \A i \in Resolved :
        (/\ WasPersisted(i)
         /\ ExistingRow(i).data_source \in ddl_types
         /\ NewRecord(i).data_source \in dml_types) =>
            LET before == PersistedColumns(db, IdentityOf(i))
                after == PersistedColumns(txn, IdentityOf(i))
            IN /\ ResultRow(i).data_source = ExistingRow(i).data_source
               /\ Names(after) = Names(before)
               /\ \A p \in before : p \in after \/ p[2] = ""

\* ------------------------------------------------------------------------
\* C5 - DML persisted, DDL new
\* ------------------------------------------------------------------------
\* C5: for every resolved DDL record whose persisted record had a DML
\* provenance, provenance and column names are the DDL record's, and a DDL
\* column without a label keeps the label the persisted column of that name
\* had.
C5_DdlInheritsLabels ==
    \A i \in Resolved :
        (/\ WasPersisted(i)
         /\ ExistingRow(i).data_source \in dml_types
         /\ NewRecord(i).data_source \in ddl_types) =>
            LET before == PersistedColumns(db, IdentityOf(i))
                after == PersistedColumns(txn, IdentityOf(i))
                new == RecordColumns(NewRecord(i))
            IN /\ ResultRow(i).data_source = NewRecord(i).data_source
               /\ Names(after) = Names(new)
               /\ \A p \in new :
                    (p[2] = "" /\ p[1] \in Names(before)
                     /\ LabelOf(before, p[1]) # "") =>
                        <<p[1], LabelOf(before, p[1])>> \in after

\* ------------------------------------------------------------------------
\* C6 - two DDL kinds
\* ------------------------------------------------------------------------
\* C6: for every resolved DDL record whose persisted record had another DDL
\* kind, the persisted record afterwards is the CREATE_TABLE one if either is
\* CREATE_TABLE, and the unchanged existing one otherwise.
C6_CreateTablePriority ==
    \A i \in Resolved :
        (/\ WasPersisted(i)
         /\ ExistingRow(i).data_source \in ddl_types
         /\ NewRecord(i).data_source \in ddl_types
         /\ ExistingRow(i).data_source # NewRecord(i).data_source) =>
            IF NewRecord(i).data_source = "CREATE_TABLE"
            THEN /\ ResultRow(i).data_source = "CREATE_TABLE"
                 /\ PersistedColumns(txn, IdentityOf(i)) = RecordColumns(NewRecord(i))
            ELSE /\ ResultRow(i) = ExistingRow(i)
                 /\ ColumnsOf(txn, IdentityOf(i)) = ColumnsOf(db, IdentityOf(i))

\* ------------------------------------------------------------------------
\* C7 - DML persisted, DML new
\* ------------------------------------------------------------------------
BothDml(i) ==
    /\ WasPersisted(i)
    /\ ExistingRow(i).data_source \in dml_types
    /\ NewRecord(i).data_source \in dml_types

C7_Merged ==
    \A i \in Resolved :
        BothDml(i) =>
            LET before == PersistedColumns(db, IdentityOf(i))
                after == PersistedColumns(txn, IdentityOf(i))
                new == RecordColumns(NewRecord(i))
            IN /\ Names(after) = Names(before) \cup Names(new)
               /\ Cardinality(after) = Cardinality(Names(after))
               /\ \A p \in new : p[1] \notin Names(before) => p \in after
               /\ \A p \in before :
                    LabelOf(after, p[1]) =
                        IF p[2] = "" /\ p[1] \in Names(new)
                        THEN LabelOf(new, p[1]) ELSE p[2]

C7_NoError ==
    (pc = "tables" /\ BothDml(cur.pos)) => pc' # "idle"

\* C7: a DML record merges into a persisted DML record by column name: a new
\* column is appended, an empty persisted label is filled, a persisted
\* non-empty label is kept against a different new one, and the resolution
\* does not fail.
C7_DmlMerge == [](C7_Merged) /\ [][C7_NoError]_vars

\* one merge that kept a label against a different one, filled an empty label
\* and appended a column
C7_Witness ==
    \E i \in Resolved :
        /\ BothDml(i)
        /\ LET before == PersistedColumns(db, IdentityOf(i))
               new == RecordColumns(NewRecord(i))
           IN /\ \E p \in before, q \in new :
                    p[1] = q[1] /\ p[2] # "" /\ q[2] # "" /\ p[2] # q[2]
              /\ \E p \in before, q \in new : p[1] = q[1] /\ p[2] = "" /\ q[2] # ""
              /\ \E q \in new : q[1] \notin Names(before)

\* ------------------------------------------------------------------------
\* C8 - one script, one transaction
\* ------------------------------------------------------------------------
\* store st holds the table, column, script, statement and detail-lineage
\* rows of the script being processed
WritesIn(st) ==
    /\ [id |-> cur.script_id, script_content |-> cur.parsed_statements] \in st.sql_scripts
    /\ {r.statement_index : r \in {x \in st.script_statements :
                                      x.script_id = cur.script_id}}
         = 1..Len(cur.parsed_statements)
    /\ \A i \in 1..Len(cur.tables_data) :
         /\ HasTable(st, IdentityOf(i))
         /\ Names(RecordColumns(NewRecord(i)))
              \subseteq Names(PersistedColumns(st, IdentityOf(i)))
    /\ \A idx \in 1..Len(cur.extracted_data) :
         LET m == cur.extracted_data[idx]
         IN m.target_table.tbl_en_nm # "" =>
              \A src \in Range(m.source_tables) :
                 src.tbl_en_nm # "" =>
                    \E d \in st.data_lineage_detail :
                       /\ d.script_id = cur.script_id
                       /\ d.statement_id = StatementId(cur.script_id, idx)
                       /\ HasTable(st, d.target_table_id)
                       /\ HasTable(st, d.source_table_id)
                       /\ TableRow(st, d.target_table_id).table_name
                            = m.target_table.tbl_en_nm
                       /\ TableRow(st, d.source_table_id).table_name = src.tbl_en_nm

SummaryRowsOf(st, script_id) ==
    {<<r.source_table_id, r.target_table_id>> :
        r \in {x \in st.data_lineage_summary : x.script_id = script_id}}

\* store st holds the summary of the script's detail lineage
SummaryIn(st) ==
    SummaryRowsOf(st, cur.script_id) =
        {<<e.source, e.target>> :
            e \in generate_summary_graph(build_detail_graph(st, cur.script_id),
                                         max_path_length)}

C8_FailureRollsBack == (Returns /\ ~Outcome.success) => db' = db

C8_SuccessCommits ==
    (Returns /\ Outcome.success) =>
        IF Outcome.script = <<>> THEN db' = db ELSE WritesIn(db')

BatchFailed == batch.status = "done" /\ ~batch.success

\* the process_sql_file calls of the current batch
BatchCalls ==
    SubSeq(history, Len(history) - Len(batch.processed) + 1, Len(history))

C9_OneError ==
    BatchFailed =>
        /\ pc = "idle"
        /\ Len(batch.errors) = 1
        /\ batch.processed # <<>>
        /\ batch.errors[1].file = batch.processed[Len(batch.processed)]
        /\ Len(BatchCalls) = Len(batch.processed)
        /\ \A j \in 1..Len(BatchCalls) :
              /\ BatchCalls[j].file = batch.processed[j]
              /\ BatchCalls[j].success <=> j < Len(BatchCalls)
        /\ \A j \in 1..(Len(BatchCalls) - 1) :
              (/\ BatchCalls[j].script # <<>>
               /\ \A k \in (j + 1)..(Len(BatchCalls) - 1) :
                     \/ BatchCalls[k].script = <<>>
                     \/ ScriptIdOf(BatchCalls[k].file) # ScriptIdOf(BatchCalls[j].file))
              => [id |-> ScriptIdOf(BatchCalls[j].file),
                  script_content |-> BatchCalls[j].script] \in db.sql_scripts

C9_Stopped == BatchFailed => (history' = history /\ db' = db /\ gl' = gl)

\* C9: a failed batch holds exactly one error, for the file processed last;
\* the files before it succeeded and stay committed; the files after it are
\* never processed.
C9_FailFast == [](C9_OneError) /\ [][C9_Stopped]_vars

\* a batch of three files: the first committed, the second failed, the third
\* was left
C9_Witness ==
    /\ BatchFailed
    /\ Len(batch.processed) = 2
    /\ Len(batch.sql_files) = 3
    /\ BatchCalls[1].script # <<>>

\* ------------------------------------------------------------------------
\* C10 - processing a script again
\* ------------------------------------------------------------------------
\* the call that returns processes the file of the call before it, unchanged,
\* and that call succeeded; no write of the store was made to raise
Rerun ==
    /\ Returns
    /\ history # <<>>
    /\ history[Len(history)].success
    /\ history[Len(history)].script # <<>>
    /\ ~history[Len(history)].summary_failed
    /\ Outcome.file = history[Len(history)].file
    /\ Outcome.script = history[Len(history)].script
    /\ Outcome.error # "unexpected error"
    /\ ~Outcome.summary_failed

\* C10: processing a successfully processed script again succeeds and leaves
\* the store and the global lineage graph as they were.
C10_RerunIdempotent ==
    [][Rerun => (Outcome.success /\ db' = db /\ gl' = gl)]_vars

\* ------------------------------------------------------------------------
\* C12 - targets by priority
\* ------------------------------------------------------------------------
\* of GraphNodes, the names without a schema part that start with a
\* conventional temp prefix
ConventionalTemp == {"TMP_T"}

\* nodes that data flows into and that are not temp tables
FedEntities ==
    {n \in graph.nodes : (\E e \in graph.edges : e[2] = n) /\ n \notin ConventionalTemp}

\* nodes nothing is read from
FinalNodes == {n \in graph.nodes : ~\E e \in graph.edges : e[1] = n}

SimplePaths(s, t) ==
    {p \in UNION {[1..k -> graph.nodes] : k \in 2..Cardinality(graph.nodes)} :
        /\ p[1] = s
        /\ p[Len(p)] = t
        /\ \A i, j \in 1..Len(p) : i # j => p[i] # p[j]
        /\ \A i \in 1..(Len(p) - 1) : <<p[i], p[i + 1]>> \in graph.edges}

ShortPaths(s, t) == {p \in SimplePaths(s, t) : Len(p) - 1 <= graph.max_path_length}

Entities == {n \in graph.nodes : n \in {"s.A", "s.B"}}

\* C13: there is a summary edge (s, t) exactly for the ordered pairs of
\* distinct entity nodes joined by a simple path of at most max_path_length
\* hops; path_count is the number of those paths, min_hop_count and
\* max_hop_count the least and the greatest of their hop counts.  The graph
\* of CREATE TABLE s.A; INSERT INTO s.A SELECT * FROM s.B gives the one edge
\* s.B -> s.A with path_count 1 and hop count 1.
C13_SummaryEdges ==
    summary.done =>
        /\ {<<e.source, e.target>> : e \in summary.edges} =
              {p \in Entities \X Entities : p[1] # p[2] /\ ShortPaths(p[1], p[2]) # {}}
        /\ \A e \in summary.edges :
              LET hops == {Len(p) - 1 : p \in ShortPaths(e.source, e.target)}
              IN /\ e.path_count = Cardinality(ShortPaths(e.source, e.target))
                 /\ e.min_hop_count \in hops
                 /\ e.max_hop_count \in hops
                 /\ \A h \in hops : e.min_hop_count <= h /\ h <= e.max_hop_count
        /\ \A e, f \in summary.edges :
              (e.source = f.source /\ e.target = f.target) => e = f
        /\ graph.edges = {<<"s.B", "s.A">>} =>
              summary.edges = {[source |-> "s.B", target |-> "s.A", path_count |-> 1,
                                min_hop_count |-> 1, max_hop_count |-> 1]}

\* two simple paths join a pair, one of two and one of three hops, and the
\* cut-off of two hops left the longer one out
C13_Witness ==
    /\ summary.done
    /\ graph.max_path_length = 2
    /\ \E e \in summary.edges :
          /\ e.path_count = 1
          /\ e.max_hop_count = 2
          /\ Cardinality(SimplePaths(e.source, e.target)) = 2

\* ------------------------------------------------------------------------
\* C14 - only entities, no self edge
\* ------------------------------------------------------------------------
\* s.B -> TMP_T -> T -> s.B and T -> s.A
CycleThroughEntity ==
    {<<"s.B", "TMP_T">>, <<"TMP_T", "T">>, <<"T", "s.B">>, <<"T", "s.A">>}

\* C14: every summary edge joins two distinct entity nodes; no temp node is
\* in the summary graph and no entity has an edge to itself, also when the
\* detail graph has a cycle through it: s.B -> TMP_T -> T -> s.B with
\* T -> s.A gives, with the default cut-off, the edge s.B -> s.A alone.
C14_EntitiesOnly ==
    summary.done =>
        /\ \A e \in summary.edges :
              /\ e.source # e.target
              /\ e.source \in {"s.A", "s.B"}
              /\ e.target \in {"s.A", "s.B"}
              /\ DetailGraphOf(graph).is_entity[e.source]
              /\ DetailGraphOf(graph).is_entity[e.target]
        /\ (graph.edges = CycleThroughEntity
            /\ graph.max_path_length = max_path_length) =>
              {<<e.source, e.target>> : e \in summary.edges} = {<<"s.B", "s.A">>}

\* the summary of the graph with the cycle through s.B
C14_Witness ==
    /\ summary.done
    /\ graph.edges = CycleThroughEntity
    /\ graph.max_path_length = max_path_length
    /\ summary.edges # {}

\* ------------------------------------------------------------------------
\* Script-local tables read by two scripts
\* ------------------------------------------------------------------------
\* every statement of the script is a write to s.A that reads a table
\* without a schema, which the script never writes
ReadsLocalTable(script, name) ==
    /\ script # <<>>
    /\ \A i \in 1..Len(script) :
          /\ script[i].statement_type = "INSERT_SELECT"
          /\ script[i].target_table.schema_nm = "s"
          /\ script[i].target_table.tbl_en_nm = "A"
          /\ script[i].source_tables = <<Ref("", name)>>

\* two different files processed with success, each reading the local table
TwoReaders(name) ==
    {p \in (1..Len(history)) \X (1..Len(history)) :
        /\ p[1] < p[2]
        /\ history[p[1]].file # history[p[2]].file
        /\ \A k \in {p[1], p[2]} :
              history[k].success /\ ReadsLocalTable(history[k].script, name)}

\* C17: when two different scripts each run INSERT INTO s.A ... FROM tmp,
\* tmp a table without a schema that is local to the script, the store holds
\* one TMP_TABLE record of tmp for each script, with the identities
\* __tmp__<script1> and __tmp__<script2>, and the scripts share no record
\* of tmp
C17_TempPerScript ==
    \A p \in TwoReaders("TMP_T") :
        /\ \A k \in {p[1], p[2]} :
              \E r \in db.tables :
                 /\ r.id = "__TMP_T__" \o ScriptIdOf(history[k].file)
                 /\ r.table_type = "TMP_TABLE"
        /\ ~HasTable(db, "__TMP_T__")

\* ------------------------------------------------------------------------
\* References and the records they point to
\* ------------------------------------------------------------------------
\* the (schema, name) pairs that the statements of a script name as target
\* or as source
ReferencedBy(extracted_data) ==
    {r \in UNION {{Ref(m.target_table.schema_nm, m.target_table.tbl_en_nm)}
                    \cup Range(m.source_tables) : m \in Range(extracted_data)} :
        r.tbl_en_nm # ""}

\* the record of the consolidation that stands for a reference
RecordOf(tables_data, ref) ==
    tables_data[CHOOSE i \in 1..Len(tables_data) :
                    /\ tables_data[i].schema_name = ref.schema_nm
                    /\ tables_data[i].table_name = ref.tbl_en_nm]

Succeeded == {k \in 1..Len(history) : history[k].success}

C11_OneRecord ==
    /\ \A r1, r2 \in db.tables : r1.id = r2.id => r1 = r2
    /\ \A k \in Succeeded :
          LET extracted_data == ExtractedData(history[k].script)
              tables_data == _consolidate_metadata(extracted_data)
          IN \A ref \in ReferencedBy(extracted_data) :
                /\ \E i \in 1..Len(tables_data) :
                      /\ tables_data[i].schema_name = ref.schema_nm
                      /\ tables_data[i].table_name = ref.tbl_en_nm
                /\ Cardinality({r \in db.tables :
                        r.id = TableIdOf(RecordOf(tables_data, ref),
                                         ScriptIdOf(history[k].file))}) = 1

C11_NoOrphan ==
    /\ \A d \in db.data_lineage_detail :
          HasTable(db, d.target_table_id) /\ HasTable(db, d.source_table_id)
    /\ \A s \in db.script_statements :
          s.target_table_id # "" => HasTable(db, s.target_table_id)

\* C11: after any sequence of processed scripts, every table that a
\* statement of a successfully processed script names as target or source
\* has exactly one persisted table record for its identity, and every
\* persisted detail-lineage edge and every statement's target reference
\* points to a persisted table record
C11_NoOrphans == C11_OneRecord /\ C11_NoOrphan

\* two scripts have succeeded, the store holds a record of a table with a
\* schema, of a temp table and of a table that was only read, detail edges
\* and statements with a target
C11_Witness ==
    /\ Cardinality(Succeeded) = 2
    /\ \E r \in db.tables : r.table_type = "TMP_TABLE"
    /\ \E r \in db.tables : r.data_source = "EXTERNAL"
    /\ \E d \in db.data_lineage_detail : d.source_table_id # d.target_table_id
    /\ \E s \in db.script_statements : s.target_table_id # ""
    /\ C11_NoOrphans

\* ------------------------------------------------------------------------
\* The global lineage graph
\* ------------------------------------------------------------------------
\* the target and source sets process_sql_file hands to the merge
SetsOf(script) ==
    _identify_target_and_source_tables(_build_dependency_graph(ExtractedData(script)))

\* the scripts merged so far: the successes that were not empty files
Merged == {k \in Succeeded : history[k].script # <<>>}

EdgesOf(g, source, target) == {e \in g.edges : e.source = source /\ e.target = target}

Occurrences(seq, x) == Cardinality({i \in 1..Len(seq) : seq[i] = x})

C15_OneEdge ==
    \A k \in Merged :
       \A source \in SetsOf(history[k].script)[2], target \in SetsOf(history[k].script)[1] :
          /\ Cardinality(EdgesOf(gl, source, target)) = 1
          /\ \A e \in EdgesOf(gl, source, target) :
                Occurrences(e.script_paths, history[k].file) = 1

C15_NothingRemoved ==
    \A e \in gl.edges :
       \E e2 \in gl'.edges :
          /\ e2.source = e.source
          /\ e2.target = e.target
          /\ Range(e.script_paths) \subseteq Range(e2.script_paths)

\* C15: after any sequence of merges into the global graph, for every merged
\* script and every pair of a source of its source set and a target of its
\* target set the graph holds exactly one edge from the source to the
\* target, the edge's provenance list holds the script exactly once, also
\* when the script was merged more than once, and no merge removes an edge
\* or a provenance entry of an earlier merge
C15_EdgesKept == []C15_OneEdge /\ [][C15_NothingRemoved]_vars

\* the same file was merged twice and its edge names it once
C15_Witness ==
    /\ Cardinality(Merged) = 2
    /\ history[1].file = history[2].file
    /\ \E e \in gl.edges : e.script_paths = <<history[1].file>>
    /\ C15_OneEdge

\* ------------------------------------------------------------------------
\* Kind and identity of a table record
\* ------------------------------------------------------------------------
\* the record's identity is its schema, its name and the given script id
EndsWith(r, script_id) ==
    r.id = r.schema_name \o "__" \o r.table_name \o "__" \o script_id

KindMatchesIdentity(st) ==
    \A r \in st.tables :
       /\ r.table_type \in {"TABLE", "VIEW", "TMP_TABLE"}
       /\ r.table_type = "TMP_TABLE" <=> (r.script_id # "" /\ EndsWith(r, r.script_id))
       /\ r.table_type \in {"TABLE", "VIEW"} => (r.script_id = "" /\ EndsWith(r, ""))

\* C16: in every reachable persisted state a table record has the kind
\* TMP_TABLE if and only if its stored script id is not empty and its
\* identity ends with that script id, and a record of kind TABLE or VIEW has
\* an empty script id and an identity without a script id; insert, full
\* overwrite, merge and skip keep it so, also inside the open transaction
C16_KindInIdentity == KindMatchesIdentity(db) /\ KindMatchesIdentity(txn)

\* after two scripts the store holds a temp table's record and a view that
\* overwrote the record the first script wrote
C16_Witness ==
    /\ Cardinality(Succeeded) = 2
    /\ \E r \in db.tables : r.table_type = "TMP_TABLE" /\ r.script_id = "f2"
    /\ \E r \in db.tables : r.table_type = "VIEW"
    /\ \E i \in 1..Len(history[1].script) :
          /\ history[1].script[i].target_table = Target("s", "A", "")
          /\ history[1].script[i].statement_type \in dml_types
    /\ \A i \in 1..Len(history[1].script) :
          history[1].script[i].statement_type \in dml_types

\* ------------------------------------------------------------------------
\* Identity encoding of the persisted rows
\* ------------------------------------------------------------------------
EncodedIds(st) ==
    /\ \A r \in st.tables :
          r.id = IF r.table_type = "TMP_TABLE"
                 THEN r.schema_name \o "__" \o r.table_name \o "__" \o r.script_id
                 ELSE r.schema_name \o "__" \o r.table_name \o "__"
    /\ \A c \in st.columns :
          /\ HasTable(st, c.table_id)
          /\ c.id = c.table_id \o "__" \o c.column_name

\* C18: a persistent table's id is its schema, "__", its name and "__", a
\* temp table's id is its schema or nothing, "__", its name, "__" and the
\* script id, and on every write path (new table, full overwrite, merge of
\* a DML statement) a persisted column's id is the id of its persisted table
\* followed by "__" and the column's name
C18_IdentityEncoding == EncodedIds(db) /\ EncodedIds(txn)

\* the first script wrote a temp table with a column and s.A, and the
\* merge of the second script's UPDATE added the column c3 to s.A
C18_Witness ==
    /\ Cardinality(Succeeded) = 2
    /\ \E c \in db.columns : c.id = "__TMP_T__f1__c1"
    /\ \E c \in db.columns : c.id = "s__A____c3"
    /\ \A i \in 1..Len(history[1].script) :
          history[1].script[i].statement_type = "INSERT_SELECT"
    /\ \A i \in 1..Len(history[2].script) :
          history[2].script[i].statement_type = "UPDATE"
    /\ EncodedIds(db)

\* ------------------------------------------------------------------------
\* The consolidation of a script's fact records
\* ------------------------------------------------------------------------
Targeted(extracted_data) ==
    {Ref(m.target_table.schema_nm, m.target_table.tbl_en_nm) : m \in Range(extracted_data)}

RecordsOf(tables_data, ref) ==
    {i \in 1..Len(tables_data) :
        /\ tables_data[i].schema_name = ref.schema_nm
        /\ tables_data[i].table_name = ref.tbl_en_nm}

\* C19: _consolidate_metadata returns exactly one record for every distinct
\* (schema, name) pair with a name that a fact record of the script names as
\* target or as source, and none for anything else; a table that the script
\* only reads gets the provenance EXTERNAL and no columns, whatever the
\* order of the statements
C19_OneConsolidatedRecord ==
    pc # "idle" =>
       /\ \A ref \in ReferencedBy(cur.extracted_data) :
             Cardinality(RecordsOf(cur.tables_data, ref)) = 1
       /\ \A i \in 1..Len(cur.tables_data) :
             LET ref == Ref(cur.tables_data[i].schema_name, cur.tables_data[i].table_name)
             IN /\ ref \in ReferencedBy(cur.extracted_data)
                /\ ref \notin Targeted(cur.extracted_data) =>
                      /\ cur.tables_data[i].data_source = "EXTERNAL"
                      /\ cur.tables_data[i].columns = <<>>

\* a script of two statements: the first reads s.A, which the second writes
\* and which is therefore not EXTERNAL, and a table is only read
C19_Witness ==
    /\ pc = "tables"
    /\ Len(cur.extracted_data) = 2
    /\ Ref("s", "A") \in Range(cur.extracted_data[1].source_tables)
    /\ cur.extracted_data[2].target_table.tbl_en_nm = "A"
    /\ \E i \in 1..Len(cur.tables_data) :
          /\ cur.tables_data[i].table_name = "A"
          /\ cur.tables_data[i].data_source # "EXTERNAL"
    /\ \E i \in 1..Len(cur.tables_data) :
          /\ cur.tables_data[i].data_source = "EXTERNAL"
          /\ Ref(cur.tables_data[i].schema_name, cur.tables_data[i].table_name)
                \notin Targeted(cur.extracted_data)

\* ------------------------------------------------------------------------
\* Later contributions to a column within one consolidation pass
\* ------------------------------------------------------------------------
\* the running set after the first i statements of the script at hand
Running(i) == ConsolidateFrom(<<>>, SubSeq(cur.extracted_data, 1, i), 1)

\* the statements after the first, each with a record in the running set
\* that it contributes to: <<i, k>> is statement i and record k
LaterContributions ==
    {p \in (2..Len(cur.extracted_data)) \X (1..Len(cur.tables_data)) :
        /\ p[2] <= Len(Running(p[1] - 1))
        /\ Running(p[1] - 1)[p[2]].schema_name =
              cur.extracted_data[p[1]].target_table.schema_nm
        /\ Running(p[1] - 1)[p[2]].table_name =
              cur.extracted_data[p[1]].target_table.tbl_en_nm}

Before(p) == Running(p[1] - 1)[p[2]].columns

After(p) == Running(p[1])[p[2]].columns

\* the labels statement i contributes to the column of that name
Contributed(i, name) ==
    {c.col_cn_nm : c \in {d \in Range(cur.extracted_data[i].target_columns) :
                             d.col_en_nm = name}}

\* the columns of the running set stay where they are and a column that is
\* new to the running set is appended
C20_Appended ==
    \A p \in LaterContributions :
       /\ Len(Before(p)) <= Len(After(p))
       /\ \A j \in 1..Len(Before(p)) : After(p)[j].col_en_nm = Before(p)[j].col_en_nm
       /\ {After(p)[j].col_en_nm : j \in 1..Len(After(p))} =
             {Before(p)[j].col_en_nm : j \in 1..Len(Before(p))}
             \cup {c.col_en_nm : c \in Range(cur.extracted_data[p[1]].target_columns)}

\* a label that is there is kept
C20_NonEmptyKept ==
    \A p \in LaterContributions :
       \A j \in 1..Len(Before(p)) :
          Before(p)[j].col_cn_nm # "" => After(p)[j].col_cn_nm = Before(p)[j].col_cn_nm

\* a DML statement fills what is empty and keeps what is there; a DDL
\* statement replaces a label by every label it contributes that is not empty
C20_ByKind ==
    \A p \in LaterContributions :
       \A j \in 1..Len(Before(p)) :
          LET old == Before(p)[j].col_cn_nm
              new == After(p)[j].col_cn_nm
              labels == Contributed(p[1], Before(p)[j].col_en_nm)
          IN /\ labels \subseteq {""} => new = old
             /\ \A label \in labels \ {""} :
                   IF cur.extracted_data[p[1]].statement_type \in ddl_types
                   THEN new = label
                   ELSE new = (IF old = "" THEN label ELSE old)

EdgeAdded ==
    /\ summary.done
    /\ summary'.done
    /\ graph.edges \subseteq graph'.edges
    /\ Cardinality(graph'.edges) = Cardinality(graph.edges) + 1

C21_Kept ==
    \A e \in summary.edges :
       \E e2 \in summary'.edges :
          /\ e2.source = e.source
          /\ e2.target = e.target
          /\ e2.path_count >= e.path_count
          /\ e2.min_hop_count <= e.min_hop_count

\* C21: the summary is monotonic in the detail graph: when one detail edge
\* is added to a detail graph, every summary edge of the graph is a summary
\* edge of the larger graph too, with a path_count that is not smaller and a
\* min_hop_count that is not larger; no summary edge is removed
C21_Monotonic == [][EdgeAdded => C21_Kept]_vars

\* an edge was added to a graph with a summary edge, and the summary edge
\* now counts more paths over fewer hops
C21_Witness ==
    /\ summary.done
    /\ Cardinality(graph.edges) = MaxEdges + 1
    /\ \E e \in summary.edges :
          /\ e.path_count = 3
          /\ e.min_hop_count = 1
          /\ e.max_hop_count = 2

\* ------------------------------------------------------------------------
\* Termination of the path enumeration
\* ------------------------------------------------------------------------
C22_Bounded ==
    summary.done =>
       \A e \in summary.edges :
          /\ e.max_hop_count <= graph.max_path_length
          /\ e.max_hop_count <= Cardinality(graph.nodes) - 1
          /\ e.min_hop_count >= 1

\* C22: generate_summary_graph terminates on every finite detail graph, also
\* on one with a cycle among temp tables: the enumeration does not visit a
\* node twice, so no path it enumerates has more hops than max_path_length
\* or than the number of nodes of the graph minus one
C22_Terminates == []C22_Bounded /\ <>summary.done

\* the summary of a graph with a cycle between the two tables without a
\* schema, in which a path of three hops is beyond the cutoff of two
C22_Witness ==
    /\ summary.done
    /\ graph.max_path_length = 2
    /\ {<<"TMP_T", "T">>, <<"T", "TMP_T">>, <<"s.A", "TMP_T">>, <<"T", "s.B">>}
          \subseteq graph.edges
    /\ summary.edges = {}

\* ------------------------------------------------------------------------
\* The statement classifier
\* ------------------------------------------------------------------------
statement_types ==
    {"CREATE_TABLE", "CREATE_TABLE_AS", "CREATE_VIEW", "INSERT_SELECT",
     "INSERT_VALUES", "UPDATE", "MERGE", "UNKNOWN"}

\* the expression of the statement is a query
HasQueryBody == statement.expression \in {"Select", "Union"}

CreatesTable == statement.class = "Create" /\ statement.kind \in {"TABLE", "table"}

CreatesView == statement.class = "Create" /\ statement.kind = "VIEW"

\* C23: the classifier is total onto the eight statement types: a table
\* creation with a query body is CREATE_TABLE_AS and one without is
\* CREATE_TABLE; a view creation is CREATE_VIEW; an insert is INSERT_SELECT
\* exactly when it has both an explicit target column list and a query body,
\* and INSERT_VALUES otherwise; anything else is UNKNOWN and no input makes
\* the classifier fail
C23_Classifier ==
    classified.statement_type # "" =>
       /\ classified.statement_type \in statement_types
       /\ CreatesTable =>
             classified.statement_type =
                (IF HasQueryBody THEN "CREATE_TABLE_AS" ELSE "CREATE_TABLE")
       /\ CreatesView => classified.statement_type = "CREATE_VIEW"
       /\ statement.class = "Insert" =>
             classified.statement_type =
                (IF statement.columns /\ HasQueryBody
                 THEN "INSERT_SELECT" ELSE "INSERT_VALUES")
       /\ statement.class = "Update" => classified.statement_type = "UPDATE"
       /\ statement.class = "Merge" => classified.statement_type = "MERGE"
       /\ (statement.class \notin {"Insert", "Update", "Merge"}
             /\ ~CreatesTable /\ ~CreatesView) =>
             classified.statement_type = "UNKNOWN"

\* ------------------------------------------------------------------------
\* The edges of the detail graph
\* ------------------------------------------------------------------------
DetailRowsOf(st, script_id) == {d \in st.data_lineage_detail : d.script_id = script_id}

\* the statements of a committed script that the detail graph shows on an
\* edge from source to target
ShownOn(script_id, source, target) ==
    LET g == build_detail_graph(db, script_id)
    IN {g.edge_data[p].statement_id : p \in {q \in g.edges : q = <<source, target>>}}

\* C24: the detail graph build_detail_graph makes for a script has one edge
\* for every persisted triple of source table, target table and statement
\* id of the script: two statements of the script that move data from the
\* same source to the same target give two edges, each with its own
\* statement index and kind
C24_EdgePerTriple ==
    \A sc \in db.sql_scripts :
       \A d \in DetailRowsOf(db, sc.id) :
          d.statement_id \in ShownOn(sc.id, d.source_table_id, d.target_table_id)

\* ------------------------------------------------------------------------
\* The statement a detail row and a target reference are attributed to
\* ------------------------------------------------------------------------
\* the statement of the script that a statement id stands for: the one at
\* the position the id carries
Position(script_id, statement_id) ==
    CHOOSE idx \in 1..MaxStmts : statement_id = StatementId(script_id, idx)

NamedBy(st, table_id) ==
    Ref(TableRow(st, table_id).schema_name, TableRow(st, table_id).table_name)

\* statement idx of the script writes the table of that id
Writes(sc, idx, table_id) ==
    /\ idx <= Len(sc.script_content)
    /\ sc.script_content[idx].statement_type \in ddl_types \cup dml_types
    /\ Ref(sc.script_content[idx].target_table.schema_nm,
           sc.script_content[idx].target_table.tbl_en_nm) = NamedBy(db, table_id)

Reads(sc, idx, table_id) ==
    /\ idx <= Len(sc.script_content)
    /\ NamedBy(db, table_id) \in Range(sc.script_content[idx].source_tables)

\* C25: every persisted detail-lineage edge of a script carries the id of
\* the statement that declared the flow from its source to its target, the
\* statement record whose index is the position of that statement in the
\* script, also when statements before it were skipped as UNKNOWN; and the
\* target table a statement record refers to is the target of the statement
\* at its index
C25_AttributedToStatement ==
    \A sc \in db.sql_scripts :
       /\ \A d \in DetailRowsOf(db, sc.id) :
             /\ \E x \in db.script_statements : x.id = d.statement_id
             /\ Writes(sc, Position(sc.id, d.statement_id), d.target_table_id)
             /\ Reads(sc, Position(sc.id, d.statement_id), d.source_table_id)
       /\ \A x \in db.script_statements :
             (x.script_id = sc.id /\ x.target_table_id # "") =>
                Writes(sc, x.statement_index, x.target_table_id)

\* ------------------------------------------------------------------------
\* Cycles of the detail graph
\* ------------------------------------------------------------------------
\* node lies on a cycle of the graph: it has an edge to itself, or an edge
\* from a node it reaches
OnCycle(g, node) ==
    \/ <<node, node>> \in g.edges
    \/ \E m \in g.nodes \ {node} :
          /\ <<m, node>> \in g.edges
          /\ SimplePathsFrom(g.edges, <<node>>, m, Cardinality(g.nodes)) # {}

\* C26: in every detail graph that is built from the fact records of a
\* script, every cycle consists of temp nodes only: no entity node (TABLE or
\* VIEW) lies on a cycle or has an edge to itself
C26_CyclesAmongTempOnly ==
    \A sc \in db.sql_scripts :
       LET g == build_detail_graph(db, sc.id)
       IN \A n \in g.nodes : g.is_entity[n] => ~OnCycle(g, n)

\* ------------------------------------------------------------------------
\* The provenance of a consolidated record
\* ------------------------------------------------------------------------
\* the kinds of the definition statements of the script that target the record
DefinitionKinds(extracted_data, table_data) ==
    {m.statement_type : m \in {x \in Range(extracted_data) :
        /\ x.statement_type \in ddl_types
        /\ x.target_table.schema_nm = table_data.schema_name
        /\ x.target_table.tbl_en_nm = table_data.table_name}}

\* C27: the provenance of a consolidated table record is the kind of the
\* statement that defines the table with the most authority: when a
\* definition statement (CREATE_TABLE, CREATE_TABLE_AS, CREATE_VIEW) of the
\* script targets the table, the provenance is that definition kind,
\* whatever the order of the statements and whatever DML statements target
\* the table after it
C27_DefinitionProvenance ==
    pc # "idle" =>
       \A i \in 1..Len(cur.tables_data) :
          DefinitionKinds(cur.extracted_data, cur.tables_data[i]) # {} =>
             cur.tables_data[i].data_source
                \in DefinitionKinds(cur.extracted_data, cur.tables_data[i])

\* ------------------------------------------------------------------------
\* Table records over time
\* ------------------------------------------------------------------------
C28_Step ==
    \A r \in db.tables :
       \E r2 \in db'.tables :
          /\ r2.id = r.id
          /\ r.data_source # "EXTERNAL" => r2.data_source # "EXTERNAL"

\* C28: over any sequence of processed scripts, a persisted table record
\* that has a provenance other than EXTERNAL never has the provenance
\* EXTERNAL again, and script processing deletes no persisted table record:
\* the set of persisted table identities only grows
C28_NeverExternalAgain == [][C28_Step]_vars

\* the first script wrote s.B, the second only reads it, and the record of
\* s.B is not EXTERNAL after both; the second script ran under the same
\* script id as the first
C28_Witness ==
    /\ Cardinality(Succeeded) = 2
    /\ history[1].file = history[2].file
    /\ \E i \in 1..Len(history[1].script) :
          history[1].script[i].target_table = Target("s", "B", "")
    /\ history[2].script # <<>>
    /\ \A i \in 1..Len(history[2].script) :
          /\ history[2].script[i].target_table # Target("s", "B", "")
          /\ Ref("s", "B") \in Range(history[2].script[i].source_tables)
    /\ \E r \in db.tables : r.id = "s__B__" /\ r.data_source # "EXTERNAL"

\* ------------------------------------------------------------------------
\* Targets, sources and edges of a table to itself
\* ------------------------------------------------------------------------
\* C29: for every dependency graph the target set and the source set that
\* _identify_target_and_source_tables returns are disjoint, so the global
\* lineage graph never holds an edge from a table to itself, for instance
\* after a script that holds CREATE TABLE s.A only
C29_NoSelfEdge ==
    /\ pc # "idle" => cur.target_tables \cap cur.source_tables = {}
    /\ \A e \in gl.edges : e.source # e.target

\* ------------------------------------------------------------------------
\* References to a script's own temp table
\* ------------------------------------------------------------------------
\* the temp tables that the script as it is committed creates or writes,
\* as their records under the script's id
OwnTempTables(sc) ==
    {t \in db.tables :
        /\ t.table_type = "TMP_TABLE"
        /\ t.script_id = sc.id
        /\ \E m \in Range(ExtractedData(sc.script_content)) :
              Ref(m.target_table.schema_nm, m.target_table.tbl_en_nm)
                 = Ref(t.schema_name, t.table_name)}

\* the table ids the script's statement records and detail rows refer to
ReferredBy(sc) ==
    {x.target_table_id : x \in {y \in db.script_statements :
                                   y.script_id = sc.id /\ y.target_table_id # ""}}
    \cup {d.target_table_id : d \in DetailRowsOf(db, sc.id)}
    \cup {d.source_table_id : d \in DetailRowsOf(db, sc.id)}

\* C30: when a script creates or writes a temp table T, persisted under the
\* identity that ends in the script's id, every detail-lineage edge and
\* every statement target reference the script records for T uses that
\* identity, whatever scripts were processed before: a persistent or
\* EXTERNAL record of the same schema and name that an earlier script left
\* is never used in its place
C30_OwnTempIdentity ==
    \A sc \in db.sql_scripts :
       \A t \in OwnTempTables(sc) :
          \A id \in ReferredBy(sc) :
             (HasTable(db, id) /\ NamedBy(db, id) = Ref(t.schema_name, t.table_name))
                => id = t.id

====
